---- MODULE Spec2Model ----
(***************************************************************************)
(* Model of src/monitor.py (class SiteMonitor): the found/notified ledger, *)
(* the worker tasks of one check cycle (fetch_page, check_for_patterns,    *)
(* _extract_product_details), the orchestrator run_check, and the monitor  *)
(* loop start_monitoring.                                                  *)
(*                                                                         *)
(* Text is a sequence of one-character strings.  A fetched page is what    *)
(* BeautifulSoup hands to the code: its visible text, title, attribute     *)
(* strings, anchors, headings and product containers.                      *)
(***************************************************************************)
EXTENDS Integers, Sequences, FiniteSets, TLC

\* ------------------------------------------------------------------ bounds
MaxCycles == 2          \* number of check cycles explored

\* ------------------------------------------------------- program constants
MAX_URLS == 10
MAX_SEARCH_TERMS == 20
MAX_RETRIES == 3
MAX_WORKERS == 4
TEXT_LIMIT == 100000

None == 0               \* found_items value of a pair that is not found

\* ------------------------------------------------------------ text helpers
Min(a, b) == IF a < b THEN a ELSE b

LowerAlnum == {"a", "b", "c", "d", "x", "5"}
Whitespace == {" "}

\* str.lower() on one character
LowerChar(c) ==
    CASE c = "A" -> "a"
      [] c = "B" -> "b"
      [] c = "C" -> "c"
      [] c = "D" -> "d"
      [] OTHER -> c

Lower(s) == [i \in 1..Len(s) |-> LowerChar(s[i])]

\* re.sub(r'[^a-z0-9\s]', ' ', text)
ReplaceNonAlnum(s) ==
    [i \in 1..Len(s) |-> IF s[i] \in LowerAlnum \cup Whitespace THEN s[i] ELSE " "]

\* re.sub(r'\s+', ' ', text): every run of whitespace becomes one space
RECURSIVE CollapseSpaces(_)
CollapseSpaces(s) ==
    IF s = <<>> THEN <<>>
    ELSE IF s[1] \in Whitespace
         THEN IF Len(s) > 1 /\ s[2] \in Whitespace
              THEN CollapseSpaces(Tail(s))
              ELSE <<" ">> \o CollapseSpaces(Tail(s))
         ELSE <<s[1]>> \o CollapseSpaces(Tail(s))

\* str.strip()
RECURSIVE StripLeft(_)
StripLeft(s) ==
    IF s # <<>> /\ s[1] \in Whitespace THEN StripLeft(Tail(s)) ELSE s

RECURSIVE StripRight(_)
StripRight(s) ==
    IF s # <<>> /\ s[Len(s)] \in Whitespace
    THEN StripRight(SubSeq(s, 1, Len(s) - 1))
    ELSE s

Strip(s) == StripRight(StripLeft(s))

\* SiteMonitor._normalize_text
NormalizeText(text) ==
    IF text = <<>> THEN <<>>
    ELSE Strip(CollapseSpaces(ReplaceNonAlnum(
             Lower(SubSeq(text, 1, Min(Len(text), TEXT_LIMIT))))))

\* Python's `s in t` on strings
Contains(t, s) ==
    \E i \in 0..(Len(t) - Len(s)) : SubSeq(t, i + 1, i + Len(s)) = s

\* ' '.join(parts)
RECURSIVE JoinSpace(_)
JoinSpace(parts) ==
    IF parts = <<>> THEN <<>>
    ELSE IF Len(parts) = 1 THEN parts[1]
    ELSE parts[1] \o <<" ">> \o JoinSpace(Tail(parts))

RECURSIVE FilterNonEmpty(_)
FilterNonEmpty(parts) ==
    IF parts = <<>> THEN <<>>
    ELSE IF parts[1] = <<>> THEN FilterNonEmpty(Tail(parts))
    ELSE <<parts[1]>> \o FilterNonEmpty(Tail(parts))

RECURSIVE Flatten(_)
Flatten(seqs) ==
    IF seqs = <<>> THEN <<>> ELSE seqs[1] \o Flatten(Tail(seqs))

Range(f) == {f[i] : i \in DOMAIN f}

\* --------------------------------------------------------- configuration
U1 == "http://a.example/p"
U2 == "http://b.example/q"

\* SEARCH_TEXT terms (already stripped, non-empty)
T1 == <<"A", "b">>
T2 == <<"c", " ", "d">>

SearchTexts == <<T1, T2>>

\* MONITOR_URL entries that _validate_url rejects
UFtp == "ftp://a.example/p"
ULocal == "http://localhost/p"
UPrivate == "http://10.0.0.5/p"
UBare == "a.example/p"

\* urlparse(url) for the urls above: scheme, netloc, and hostname as its
\* dot-separated labels
UrlParse ==
    (U1 :> [scheme |-> "http", netloc |-> "a.example", hostname |-> <<"a", "example">>])
    @@ (U2 :> [scheme |-> "http", netloc |-> "b.example", hostname |-> <<"b", "example">>])
    @@ (UFtp :> [scheme |-> "ftp", netloc |-> "a.example", hostname |-> <<"a", "example">>])
    @@ (ULocal :> [scheme |-> "http", netloc |-> "localhost", hostname |-> <<"localhost">>])
    @@ (UPrivate :> [scheme |-> "http", netloc |-> "10.0.0.5",
                     hostname |-> <<"10", "0", "0", "5">>])
    @@ (UBare :> [scheme |-> "", netloc |-> "", hostname |-> <<>>])

\* hostname.startswith(label + '.')
StartsWithLabel(hostname, label) == Len(hostname) > 1 /\ hostname[1] = label

\* SiteMonitor._validate_url
ValidateUrl(url) ==
    LET parsed == UrlParse[url]
        hostname == parsed.hostname
    IN  /\ parsed.scheme # "" /\ parsed.netloc # ""
        /\ parsed.scheme \in {"http", "https"}
        /\ ~ /\ hostname # <<>>
             /\ \/ hostname = <<"localhost">>
                \/ StartsWithLabel(hostname, "127")
                \/ Len(hostname) > 2 /\ hostname[1] = "192" /\ hostname[2] = "168"
                \/ StartsWithLabel(hostname, "10")
                \/ /\ Len(hostname) > 2 /\ hostname[1] = "172"
                   /\ hostname[2] \in {"16", "17", "18", "19", "20", "21", "22", "23",
                                       "24", "25", "26", "27", "28", "29", "30", "31"}

\* __init__: the urls kept from MONITOR_URL (split and stripped already)
ValidUrls(raw_urls) ==
    SelectSeq(SubSeq(raw_urls, 1, Min(Len(raw_urls), MAX_URLS)), ValidateUrl)

\* __init__: the terms kept from SEARCH_TEXT (split and stripped already)
KeptSearchTexts(raw_search_texts) ==
    SubSeq(raw_search_texts, 1, Min(Len(raw_search_texts), MAX_SEARCH_TERMS))

\* SiteMonitor._validate_config: the error list
ConfigErrors(e) ==
    (IF e.PUSHOVER_TOKEN = "" THEN {"PUSHOVER_TOKEN"} ELSE {})
    \cup (IF e.PUSHOVER_USER = "" THEN {"PUSHOVER_USER"} ELSE {})
    \cup (IF ValidUrls(e.MONITOR_URL) = <<>> THEN {"MONITOR_URL"} ELSE {})
    \cup (IF KeptSearchTexts(e.SEARCH_TEXT) = <<>> THEN {"SEARCH_TEXT"} ELSE {})
    \cup (IF e.CHECK_INTERVAL < 10 THEN {"CHECK_INTERVAL"} ELSE {})

\* SiteMonitor() raises: no valid url (line 59) or a validation error
ConstructionFails(e) == ValidUrls(e.MONITOR_URL) = <<>> \/ ConfigErrors(e) # {}

\* an environment that passes validation, for a MONITOR_URL list
GoodEnv(raw_urls, auto_stop) ==
    [MONITOR_URL |-> raw_urls, PUSHOVER_TOKEN |-> "token", PUSHOVER_USER |-> "user",
     CHECK_INTERVAL |-> 10, SEARCH_TEXT |-> SearchTexts, AUTO_STOP_ON_FOUND |-> auto_stop]

\* environments that fail validation: a missing credential, no valid url, no
\* term, an interval below 10
BadEnvs ==
    {[GoodEnv(<<U1, U2>>, TRUE) EXCEPT !.PUSHOVER_TOKEN = ""],
     [GoodEnv(<<U1, U2>>, TRUE) EXCEPT !.PUSHOVER_USER = ""],
     [GoodEnv(<<U1, U2>>, TRUE) EXCEPT !.MONITOR_URL = <<UFtp, ULocal, UPrivate, UBare>>],
     [GoodEnv(<<U1, U2>>, TRUE) EXCEPT !.SEARCH_TEXT = <<>>],
     [GoodEnv(<<U1, U2>>, TRUE) EXCEPT !.CHECK_INTERVAL = 9]}

\* MONITOR_URL lists: two sites, one site among rejected entries, or one site
\* listed twice (the list is not deduplicated)
UrlConfigs == {<<U1, U2>>, <<ULocal, U1, UFtp>>, <<U1, U1>>}

\* ------------------------------------------------------------------ pages
NoPage == "none"

\* An href for which urllib's urljoin raises ValueError ("Invalid IPv6 URL")
BadHref == <<"/", "/", "[">>

EmptyPage ==
    [html |-> FALSE, text |-> <<>>, title |-> <<>>, meta |-> <<>>, imgs |-> <<>>,
     links |-> <<>>, data |-> <<>>, inputs |-> <<>>, headings |-> <<>>,
     containers |-> <<>>]

\* "x AB! x": the first term occurs in plain text only
PlainPage ==
    [EmptyPage EXCEPT !.html = TRUE,
                      !.text = <<"x", " ", "A", "B", "!", " ", "x">>]

\* an anchor and a heading carry the first term, a product container the second
ShopPage ==
    [EmptyPage EXCEPT !.html = TRUE,
                      !.text = <<"A", "b", " ", "A", "B", " ", "C", "-", "-", "D", " ", "5", "$">>,
                      !.links = << [text |-> <<"A", "b">>, title |-> <<>>,
                                   href |-> <<"/", "x">>] >>,
                      !.headings = << [text |-> <<"A", "B">>, tag |-> "h1"] >>,
                      !.containers = << [text |-> <<"C", "-", "-", "D", " ", "5", "$">>,
                                        price |-> <<"5", "$">>, href |-> <<>>] >>]

\* the anchor that carries the first term has a malformed href
BadLinkPage ==
    [EmptyPage EXCEPT !.html = TRUE,
                      !.text = <<"a", "b">>,
                      !.links = << [text |-> <<"a", "b">>, title |-> <<>>,
                                   href |-> BadHref] >>]

\* "a-b x": no term occurs ("a b" is not "ab")
OtherPage ==
    [EmptyPage EXCEPT !.html = TRUE,
                      !.text = <<"a", "-", "b", " ", "x">>]

Pages ==
    [empty |-> EmptyPage, plain |-> PlainPage, shop |-> ShopPage,
     badlink |-> BadLinkPage, other |-> OtherPage]

PageIds == DOMAIN Pages

\* what one GET can end in: a 2xx page, an error fetch_page retries (timeout,
\* connection error, 5xx), or one it does not (4xx, unexpected error)
Responses == PageIds \cup {"retryable", "terminal"}

\* ------------------------------------------------------ content collector
LinkStrings(link) ==
    (IF link.title # <<>> THEN <<link.title>> ELSE <<>>)
    \o (IF link.href # <<>> THEN <<link.href>> ELSE <<>>)

\* SiteMonitor._collect_searchable_content
CollectSearchableContent(page) ==
    <<page.text>>
    \o (IF page.title # <<>> THEN <<page.title>> ELSE <<>>)
    \o page.meta
    \o page.imgs
    \o Flatten([i \in 1..Len(page.links) |-> LinkStrings(page.links[i])])
    \o page.data
    \o page.inputs

\* check_for_patterns: all_content / normalized_content
NormalizedContent(page) ==
    NormalizeText(JoinSpace(FilterNonEmpty(CollectSearchableContent(page))))

\* variant of TermMatches: the raw term is looked up in the raw content
TermMatchesRaw(page, search_text) ==
    Contains(JoinSpace(FilterNonEmpty(CollectSearchableContent(page))), search_text)

\* check_for_patterns: `normalized_search in normalized_content`
TermMatches(page, search_text) ==
    Contains(NormalizedContent(page), NormalizeText(search_text))

\* ------------------------------------------------------- detail extractor
\* the test used for anchors and headings
RawOrNormalizedMatch(search_text, element_text) ==
    \/ Contains(Lower(element_text), Lower(search_text))
    \/ Contains(NormalizeText(element_text), NormalizeText(search_text))

FirstIndex(S) == CHOOSE i \in S : \A j \in S : i <= j

LinkHits(page, search_text) ==
    {i \in 1..Len(page.links) :
        RawOrNormalizedMatch(search_text, Strip(page.links[i].text))}

HeadingHits(page, search_text) ==
    {i \in 1..Len(page.headings) :
        RawOrNormalizedMatch(search_text, Strip(page.headings[i].text))}

ContainerHits(page, search_text) ==
    {i \in 1..Len(page.containers) :
        Contains(NormalizeText(page.containers[i].text), NormalizeText(search_text))}

Info(type, search_text, url) ==
    [type |-> type, search_term |-> search_text, found_at |-> url]

\* the records _extract_product_details appends for one term
TermDetails(page, search_text, url) ==
    (IF LinkHits(page, search_text) # {}
     THEN <<Info("link", search_text, url)>> ELSE <<>>)
    \o (IF HeadingHits(page, search_text) # {}
        THEN <<Info("heading", search_text, url)>> ELSE <<>>)
    \o (IF ContainerHits(page, search_text) # {}
        THEN <<Info("product_container", search_text, url)>> ELSE <<>>)

\* urljoin(url, href) raises for the first matching anchor of the term
TermRaises(page, search_text) ==
    /\ LinkHits(page, search_text) # {}
    /\ page.links[FirstIndex(LinkHits(page, search_text))].href = BadHref

\* SiteMonitor._extract_product_details: the records, or an exception
ExtractProductDetails(page, found_texts, url) ==
    IF \E k \in 1..Len(found_texts) : TermRaises(page, found_texts[k])
    THEN [exc |-> TRUE, infos |-> <<>>]
    ELSE [exc |-> FALSE,
          infos |-> Flatten([k \in 1..Len(found_texts) |->
                                TermDetails(page, found_texts[k], url)])]

NoResult == [exc |-> FALSE, infos |-> <<>>]

\* the pages that have a body, the lists check_for_patterns can hand to the
\* extractor (found_texts keeps the order of search_texts), and the outcome of
\* the matcher and of the extractor for each of them, computed once
HtmlPages == {p \in PageIds : Pages[p].html}
FoundLists == {<<T1>>, <<T2>>, <<T1, T2>>}
Matches == [p \in HtmlPages |-> [t \in Range(SearchTexts) |-> TermMatches(Pages[p], t)]]
Details ==
    [p \in HtmlPages |-> [f \in FoundLists |-> [u \in {U1, U2} |->
        ExtractProductDetails(Pages[p], f, u)]]]

\* ------------------------------------------------------------------ state
VARIABLES
    urls,                \* self.urls
    search_texts,        \* self.search_texts
    auto_stop_on_found,  \* self.auto_stop_on_found
    env,                 \* the process environment (os.getenv)
    site,                \* environment: the responses each url's server can give
    found_items,         \* self.found_items[url][term]: None or the found timestamp
    notification_sent,   \* self.notification_sent[url][term]
    lock,                \* holder of self._lock: Free, a task, or the main thread
    pc,                  \* position of the main thread
    cycle,               \* number of the current check cycle
    now,                 \* the wall clock read by datetime.now()
    any_new_found,       \* run_check's local
    processed,           \* futures as_completed has already yielded
    cur,                 \* the future whose product_info is being notified
    idx,                 \* position in that product_info
    tpc,                 \* position of each task (one per entry of self.urls)
    tattempt,            \* fetch_page's attempt of each task
    tfetch,              \* outcome of the task's last fetch attempt
    twait,               \* seconds fetch_page slept in the task's last step
    tpage,               \* the page each task fetched
    tk,                  \* check_for_patterns' position in search_texts
    tfound,              \* check_for_patterns' found_texts
    tresult,             \* what each finished task returned or raised
    dispatch_log,        \* history: per pair, the outcome of every dispatch
    writes,              \* history: per pair, how often the timestamp was written
    summaries,           \* history: the outcome of every mission-complete summary dispatch
    exit_code            \* the process exit code once it has exited, else NoExit

vars == <<urls, search_texts, auto_stop_on_found, env, site, found_items,
          notification_sent, lock, pc, cycle, now, any_new_found, processed, cur, idx,
          tpc, tattempt, tfetch, twait, tpage, tk, tfound, tresult,
          dispatch_log, writes, summaries, exit_code>>

config == <<urls, search_texts, auto_stop_on_found, env, site>>
ledger == <<found_items, notification_sent>>
mainloc == <<any_new_found, processed, cur, idx>>
tasklocs == <<tattempt, tfetch, twait, tpage, tk, tfound, tresult>>
history == <<dispatch_log, writes, summaries, exit_code>>

Free == 0
NoExit == "running"
ExitSuccess == "0"
ExitInterrupt == "SIGINT"

Tasks == 1..Len(urls)
MainThread == Len(urls) + 1
URLSet == Range(urls)
TermSet == Range(search_texts)
Pairs == URLSet \X TermSet

\* run_check: max_workers = min(len(self.urls), self.MAX_WORKERS)
MaxWorkersOf(us) == Min(Len(us), MAX_WORKERS)

\* tasks a pool thread is executing
Running == {i \in Tasks : tpc[i] \notin {"idle", "queued", "done"}}

\* variant of IsFound: the ledger lookup never sees a timestamp
IsFoundNever(fi, url, search_text) == FALSE

\* `self.found_items[url].get(search_text)` as a truth value
IsFound(fi, url, search_text) == fi[url][search_text] # None

\* SiteMonitor.__init__ for one of the given MONITOR_URL lists
InitWith(envs, responses) ==
    /\ env \in envs
    /\ site = [u \in Range(env.MONITOR_URL) |-> responses[u]]
    /\ urls = <<>>
    /\ search_texts = <<>>
    /\ auto_stop_on_found = FALSE
    /\ found_items = <<>>
    /\ notification_sent = <<>>
    /\ lock = Free
    /\ pc = "main"
    /\ cycle = 1
    /\ now = 1
    /\ any_new_found = FALSE
    /\ processed = {}
    /\ cur = 0
    /\ idx = 0
    /\ tpc = <<>>
    /\ tattempt = <<>>
    /\ tfetch = <<>>
    /\ twait = <<>>
    /\ tpage = <<>>
    /\ tk = <<>>
    /\ tfound = <<>>
    /\ tresult = <<>>
    /\ dispatch_log = <<>>
    /\ writes = <<>>
    /\ summaries = <<>>
    /\ exit_code = NoExit

\* the environments of a set of MONITOR_URL lists, and the failing ones
EnvsOf(url_lists) ==
    {GoodEnv(raw_urls, auto_stop) : raw_urls \in url_lists, auto_stop \in BOOLEAN}
    \cup BadEnvs

\* servers that can answer with anything
AnyResponse == [u \in DOMAIN UrlParse |-> Responses]

\* two different sites
Init == InitWith(EnvsOf({<<U1, U2>>}), AnyResponse)

\* any of the MONITOR_URL lists
InitAnyUrls == InitWith(EnvsOf(UrlConfigs), AnyResponse)

\* a MONITOR_URL list longer than the pool: the first site four times, then
\* the second
ManyUrls == <<U1, U1, U1, U1, U2>>

\* the first site always serves the shop page; the second serves it, or fails
ShopResponses ==
    [u \in DOMAIN UrlParse |->
        IF u = U1 THEN {"shop"} ELSE {"shop", "terminal", "retryable"}]

\* five tasks for a pool of four threads, one term, auto-stop enabled
InitManyUrls ==
    InitWith({[GoodEnv(ManyUrls, TRUE) EXCEPT !.SEARCH_TEXT = <<T1>>]} \cup BadEnvs,
             ShopResponses)

\* __main__: SiteMonitor() raises and `except Exception` logs it; the script
\* then ends, so the process exits with status 0
ConstructFails ==
    /\ pc = "main"
    /\ ConstructionFails(env)
    /\ pc' = "failed"
    /\ exit_code' = ExitSuccess
    /\ UNCHANGED <<config, ledger, lock, cycle, now, mainloc, tpc, tasklocs,
                   dispatch_log, writes, summaries>>

\* __main__: SiteMonitor() succeeds; __init__ has loaded the configuration and
\* initialised the ledger and the lock
Construct ==
    /\ pc = "main"
    /\ ~ConstructionFails(env)
    /\ LET us == ValidUrls(env.MONITOR_URL)
           sts == KeptSearchTexts(env.SEARCH_TEXT)
           range_us == Range(us)
           range_sts == Range(sts)
           n == Len(us)
       IN  /\ urls' = us
           /\ search_texts' = sts
           /\ auto_stop_on_found' = env.AUTO_STOP_ON_FOUND
           /\ found_items' = [u \in range_us |-> [t \in range_sts |-> None]]
           /\ notification_sent' = [u \in range_us |-> [t \in range_sts |-> FALSE]]
           /\ tpc' = [i \in 1..n |-> "idle"]
           /\ tattempt' = [i \in 1..n |-> 0]
           /\ tfetch' = [i \in 1..n |-> "none"]
           /\ twait' = [i \in 1..n |-> 0]
           /\ tpage' = [i \in 1..n |-> NoPage]
           /\ tk' = [i \in 1..n |-> 0]
           /\ tfound' = [i \in 1..n |-> <<>>]
           /\ tresult' = [i \in 1..n |-> NoResult]
           /\ dispatch_log' = [u \in range_us |-> [t \in range_sts |-> <<>>]]
           /\ writes' = [u \in range_us |-> [t \in range_sts |-> 0]]
    /\ lock' = Free
    /\ pc' = "start"
    /\ UNCHANGED <<env, site, cycle, now, mainloc, summaries, exit_code>>

\* --------------------------------------------------------- worker tasks
\* variant of TaskStart: a thread for every submitted task
TaskStartUnbounded(i) ==
    /\ tpc[i] = "queued"
    /\ \A j \in Tasks : j < i => tpc[j] # "queued"
    /\ tpc' = [tpc EXCEPT ![i] = "fetch"]
    /\ tattempt' = [tattempt EXCEPT ![i] = 0]
    /\ UNCHANGED <<config, ledger, lock, pc, cycle, now, mainloc, tfetch, twait,
                   tpage, tk, tfound, tresult, history>>

\* A thread of the ThreadPoolExecutor takes the next submitted task from the
\* work queue and calls _check_single_url.
TaskStart(i) ==
    /\ tpc[i] = "queued"
    /\ \A j \in Tasks : j < i => tpc[j] # "queued"
    /\ Cardinality(Running) < MaxWorkersOf(urls)
    /\ tpc' = [tpc EXCEPT ![i] = "fetch"]
    /\ tattempt' = [tattempt EXCEPT ![i] = 0]
    /\ UNCHANGED <<config, ledger, lock, pc, cycle, now, mainloc, tfetch, twait,
                   tpage, tk, tfound, tresult, history>>

\* _check_single_url returns: the task is finished with this result
TaskReturn(i, result) ==
    /\ tpc' = [tpc EXCEPT ![i] = "done"]
    /\ tresult' = [tresult EXCEPT ![i] = result]
    /\ tpage' = [tpage EXCEPT ![i] = NoPage]
    /\ tk' = [tk EXCEPT ![i] = 0]
    /\ tattempt' = [tattempt EXCEPT ![i] = 0]
    /\ twait' = [twait EXCEPT ![i] = 0]
    /\ UNCHANGED tfound

\* check_for_patterns: the for loop moves on from term k
NextTerm(i, k, found_texts) ==
    /\ tk' = [tk EXCEPT ![i] = k + 1]
    /\ tfound' = [tfound EXCEPT ![i] = found_texts]
    /\ tpc' = [tpc EXCEPT ![i] = IF k + 1 > Len(search_texts)
                                 THEN "finish" ELSE "chk_wait"]

\* fetch_page, one attempt of the retry loop: the response is a 2xx page;
\* _check_single_url returns [] for an empty body, else check_for_patterns runs
FetchOk(i) ==
    /\ tpc[i] = "fetch"
    /\ tfetch' = [tfetch EXCEPT ![i] = "content"]
    /\ \E p \in PageIds \cap site[urls[i]] :
          IF Pages[p].html
          THEN /\ tpc' = [tpc EXCEPT ![i] = "chk_wait"]
               /\ tpage' = [tpage EXCEPT ![i] = p]
               /\ tk' = [tk EXCEPT ![i] = 1]
               /\ tattempt' = [tattempt EXCEPT ![i] = 0]
               /\ twait' = [twait EXCEPT ![i] = 0]
               /\ UNCHANGED <<tresult, tfound>>
          ELSE TaskReturn(i, NoResult)
    /\ UNCHANGED <<config, ledger, lock, pc, cycle, now, mainloc, history>>

\* variant of FetchTerminal: the body of the error response is matched as if
\* the fetch had succeeded
FetchTerminalUsesBody(i) ==
    /\ tpc[i] = "fetch"
    /\ "terminal" \in site[urls[i]]
    /\ tfetch' = [tfetch EXCEPT ![i] = "terminal"]
    /\ \E p \in {q \in PageIds : Pages[q].html} :
          /\ tpc' = [tpc EXCEPT ![i] = "chk_wait"]
          /\ tpage' = [tpage EXCEPT ![i] = p]
          /\ tk' = [tk EXCEPT ![i] = 1]
          /\ tattempt' = [tattempt EXCEPT ![i] = 0]
          /\ twait' = [twait EXCEPT ![i] = 0]
          /\ UNCHANGED <<tresult, tfound>>
    /\ UNCHANGED <<config, ledger, lock, pc, cycle, now, mainloc, history>>

\* fetch_page: a 4xx response or an unexpected error ends the fetch at once
FetchTerminal(i) ==
    /\ tpc[i] = "fetch"
    /\ "terminal" \in site[urls[i]]
    /\ tfetch' = [tfetch EXCEPT ![i] = "terminal"]
    /\ TaskReturn(i, NoResult)
    /\ UNCHANGED <<config, ledger, lock, pc, cycle, now, mainloc, history>>

\* variant of FetchRetryable: the same wait before every retry
FetchRetryableFlatWait(i) ==
    /\ tpc[i] = "fetch"
    /\ "retryable" \in site[urls[i]]
    /\ tfetch' = [tfetch EXCEPT ![i] = "retryable"]
    /\ IF tattempt[i] < MAX_RETRIES - 1
       THEN /\ twait' = [twait EXCEPT ![i] = 5]
            /\ tattempt' = [tattempt EXCEPT ![i] = @ + 1]
            /\ UNCHANGED <<tpc, tpage, tk, tfound, tresult>>
       ELSE TaskReturn(i, NoResult)
    /\ UNCHANGED <<config, ledger, lock, pc, cycle, now, mainloc, history>>

\* fetch_page: timeout, connection error or 5xx; while attempts remain it
\* sleeps wait_time = (attempt + 1) * 5 and goes to the next attempt
FetchRetryable(i) ==
    /\ tpc[i] = "fetch"
    /\ "retryable" \in site[urls[i]]
    /\ tfetch' = [tfetch EXCEPT ![i] = "retryable"]
    /\ IF tattempt[i] < MAX_RETRIES - 1
       THEN /\ twait' = [twait EXCEPT ![i] = (tattempt[i] + 1) * 5]
            /\ tattempt' = [tattempt EXCEPT ![i] = @ + 1]
            /\ UNCHANGED <<tpc, tpage, tk, tfound, tresult>>
       ELSE TaskReturn(i, NoResult)
    /\ UNCHANGED <<config, ledger, lock, pc, cycle, now, mainloc, history>>

\* check_for_patterns, `with self._lock:` of the already-found check
CheckAcquire(i) ==
    /\ tpc[i] = "chk_wait"
    /\ lock = Free
    /\ lock' = i
    /\ tpc' = [tpc EXCEPT ![i] = "chk_cs"]
    /\ UNCHANGED <<config, ledger, pc, cycle, now, mainloc, tasklocs, history>>

\* the already-found check, the release, and the substring test that follows
CheckFound(i) ==
    /\ tpc[i] = "chk_cs"
    /\ lock = i
    /\ lock' = Free
    /\ LET search_text == search_texts[tk[i]]
       IN  IF IsFound(found_items, urls[i], search_text)
           THEN NextTerm(i, tk[i], tfound[i])
           ELSE IF Matches[tpage[i]][search_text]
                THEN /\ tpc' = [tpc EXCEPT ![i] = "commit_wait"]
                     /\ UNCHANGED <<tk, tfound>>
                ELSE NextTerm(i, tk[i], tfound[i])
    /\ UNCHANGED <<config, ledger, pc, cycle, now, mainloc, tattempt, tfetch, twait,
                   tpage, tresult, history>>

\* check_for_patterns, `with self._lock:` of the update
CommitAcquire(i) ==
    /\ tpc[i] = "commit_wait"
    /\ lock = Free
    /\ lock' = i
    /\ tpc' = [tpc EXCEPT ![i] = "commit_cs"]
    /\ UNCHANGED <<config, ledger, pc, cycle, now, mainloc, tasklocs, history>>

\* CommitFound without the double-check
CommitFoundNoDoubleCheck(i) ==
    /\ tpc[i] = "commit_cs"
    /\ lock = i
    /\ lock' = Free
    /\ found_items' = [found_items EXCEPT ![urls[i]][search_texts[tk[i]]] = now]
    /\ writes' = [writes EXCEPT ![urls[i]][search_texts[tk[i]]] = @ + 1]
    /\ NextTerm(i, tk[i], Append(tfound[i], search_texts[tk[i]]))
    /\ UNCHANGED <<config, notification_sent, pc, cycle, now, mainloc, tattempt,
                   tfetch, twait, tpage, tresult, dispatch_log, summaries, exit_code>>

\* variant of CommitFound: the term is reported but no timestamp is written
CommitFoundNoWrite(i) ==
    /\ tpc[i] = "commit_cs"
    /\ lock = i
    /\ lock' = Free
    /\ IF ~IsFound(found_items, urls[i], search_texts[tk[i]])
       THEN NextTerm(i, tk[i], Append(tfound[i], search_texts[tk[i]]))
       ELSE NextTerm(i, tk[i], tfound[i])
    /\ UNCHANGED <<config, ledger, pc, cycle, now, mainloc, tattempt, tfetch, twait,
                   tpage, tresult, history>>

\* the double-check and the write of the found timestamp, then the release
CommitFound(i) ==
    /\ tpc[i] = "commit_cs"
    /\ lock = i
    /\ lock' = Free
    /\ LET search_text == search_texts[tk[i]]
           url == urls[i]
       IN  IF ~IsFound(found_items, url, search_text)
           THEN /\ found_items' = [found_items EXCEPT ![url][search_text] = now]
                /\ writes' = [writes EXCEPT ![url][search_text] = @ + 1]
                /\ NextTerm(i, tk[i], Append(tfound[i], search_text))
           ELSE /\ UNCHANGED <<found_items, writes>>
                /\ NextTerm(i, tk[i], tfound[i])
    /\ UNCHANGED <<config, notification_sent, pc, cycle, now, mainloc, tattempt,
                   tfetch, twait, tpage, tresult, dispatch_log, summaries, exit_code>>

\* variant of TaskFinish: the worker sends the notifications of its own
\* records before it returns
TaskFinishDispatches(i) ==
    /\ tpc[i] = "finish"
    /\ TaskReturn(i, IF tfound[i] = <<>>
                     THEN NoResult
                     ELSE Details[tpage[i]][tfound[i]][urls[i]])
    /\ dispatch_log' =
          [dispatch_log EXCEPT ![urls[i]] =
              [t \in TermSet |-> IF t \in Range(tfound[i])
                                 THEN Append(@[t], [ok |-> TRUE, cycle |-> cycle])
                                 ELSE @[t]]]
    /\ UNCHANGED <<config, ledger, lock, pc, cycle, now, mainloc, tfetch, writes,
                   summaries, exit_code>>

\* check_for_patterns' return and _check_single_url's: the product_info of
\* the newly found terms, [] when there is none, or the extractor's exception
TaskFinish(i) ==
    /\ tpc[i] = "finish"
    /\ TaskReturn(i, IF tfound[i] = <<>>
                     THEN NoResult
                     ELSE Details[tpage[i]][tfound[i]][urls[i]])
    /\ UNCHANGED <<config, ledger, lock, pc, cycle, now, mainloc, tfetch, history>>

\* ----------------------------------------------------------- run_check
\* start_monitoring: the startup notification (its result is ignored)
StartMonitoring ==
    /\ pc = "start"
    /\ pc' = "run_check"
    /\ UNCHANGED <<config, ledger, lock, cycle, now, mainloc, tpc, tasklocs, history>>

\* RunCheckSubmit clearing the sent flags at the start of every cycle
RunCheckSubmitResetsSent ==
    /\ pc = "run_check"
    /\ any_new_found' = FALSE
    /\ processed' = {}
    /\ tpc' = [i \in Tasks |-> "queued"]
    /\ tresult' = [i \in Tasks |-> NoResult]
    /\ tfetch' = [i \in Tasks |-> "none"]
    /\ tfound' = [i \in Tasks |-> <<>>]
    /\ notification_sent' = [u \in URLSet |-> [t \in TermSet |-> FALSE]]
    /\ pc' = "as_completed"
    /\ UNCHANGED <<config, found_items, lock, cycle, now, cur, idx, tattempt, twait,
                   tpage, tk, history>>

\* run_check: the executor is created and one task per entry of urls submitted
RunCheckSubmit ==
    /\ pc = "run_check"
    /\ any_new_found' = FALSE
    /\ processed' = {}
    /\ tpc' = [i \in Tasks |-> "queued"]
    /\ tresult' = [i \in Tasks |-> NoResult]
    /\ tfetch' = [i \in Tasks |-> "none"]
    /\ tfound' = [i \in Tasks |-> <<>>]
    /\ pc' = "as_completed"
    /\ UNCHANGED <<config, ledger, lock, cycle, now, cur, idx, tattempt, twait,
                   tpage, tk, history>>

\* the `for info in product_info` loop moves on from position j of future i
NextInfo(i, j) ==
    IF j + 1 > Len(tresult[i].infos)
    THEN /\ pc' = "as_completed"
         /\ processed' = processed \cup {i}
         /\ cur' = 0
         /\ idx' = 0
    ELSE /\ pc' = "notify_wait"
         /\ idx' = j + 1
         /\ UNCHANGED <<processed, cur>>

\* variant of AsCompleted: a future that raised ends the loop over the futures
AsCompletedAbortsOnError ==
    /\ pc = "as_completed"
    /\ \E i \in Tasks \ processed :
          /\ tpc[i] = "done"
          /\ IF ~tresult[i].exc /\ tresult[i].infos # <<>>
             THEN /\ any_new_found' = TRUE
                  /\ cur' = i
                  /\ idx' = 1
                  /\ pc' = "notify_wait"
                  /\ UNCHANGED processed
             ELSE /\ processed' = IF tresult[i].exc THEN Tasks ELSE processed \cup {i}
                  /\ UNCHANGED <<any_new_found, cur, idx, pc>>
    /\ UNCHANGED <<config, ledger, lock, cycle, now, tpc, tasklocs, history>>

\* as_completed yields a finished future; future.result() returns or raises
AsCompleted ==
    /\ pc = "as_completed"
    /\ \E i \in Tasks \ processed :
          /\ tpc[i] = "done"
          /\ IF ~tresult[i].exc /\ tresult[i].infos # <<>>
             THEN /\ any_new_found' = TRUE
                  /\ cur' = i
                  /\ idx' = 1
                  /\ pc' = "notify_wait"
                  /\ UNCHANGED processed
             ELSE /\ processed' = processed \cup {i}
                  /\ UNCHANGED <<any_new_found, cur, idx, pc>>
    /\ UNCHANGED <<config, ledger, lock, cycle, now, tpc, tasklocs, history>>

\* run_check, `with self._lock:` of the already-sent check
NotifyAcquire ==
    /\ pc = "notify_wait"
    /\ lock = Free
    /\ lock' = MainThread
    /\ pc' = "notify_cs"
    /\ UNCHANGED <<config, ledger, cycle, now, mainloc, tpc, tasklocs, history>>

\* NotifyMark without the already-sent check: every record is dispatched
NotifyMarkNoCheck ==
    /\ pc = "notify_cs"
    /\ lock = MainThread
    /\ lock' = Free
    /\ LET info == tresult[cur].infos[idx]
       IN  notification_sent' =
              [notification_sent EXCEPT ![info.found_at][info.search_term] = TRUE]
    /\ pc' = "send"
    /\ UNCHANGED <<config, found_items, cycle, now, mainloc, tpc, tasklocs, history>>

\* variant of NotifyMark: the lock is kept for the dispatch that follows
NotifyMarkKeepsLock ==
    /\ pc = "notify_cs"
    /\ lock = MainThread
    /\ LET info == tresult[cur].infos[idx]
       IN  IF notification_sent[info.found_at][info.search_term]
           THEN /\ NextInfo(cur, idx)
                /\ lock' = Free
                /\ UNCHANGED notification_sent
           ELSE /\ notification_sent' =
                      [notification_sent EXCEPT ![info.found_at][info.search_term] = TRUE]
                /\ pc' = "send"
                /\ lock' = lock
                /\ UNCHANGED <<processed, cur, idx>>
    /\ UNCHANGED <<config, found_items, cycle, now, any_new_found, tpc, tasklocs,
                   history>>

\* the already-sent check: skip the record, or set the flag; then the release
NotifyMark ==
    /\ pc = "notify_cs"
    /\ lock = MainThread
    /\ lock' = Free
    /\ LET info == tresult[cur].infos[idx]
       IN  IF notification_sent[info.found_at][info.search_term]
           THEN /\ NextInfo(cur, idx)
                /\ UNCHANGED notification_sent
           ELSE /\ notification_sent' =
                      [notification_sent EXCEPT ![info.found_at][info.search_term] = TRUE]
                /\ pc' = "send"
                /\ UNCHANGED <<processed, cur, idx>>
    /\ UNCHANGED <<config, found_items, cycle, now, any_new_found, tpc, tasklocs,
                   history>>

\* send_pushover_notification for the record: True on status 200, False on
\* any other status or on an exception
SendNotification ==
    /\ pc = "send"
    /\ LET info == tresult[cur].infos[idx]
       IN  \E success \in BOOLEAN :
              /\ dispatch_log' =
                    [dispatch_log EXCEPT ![info.found_at][info.search_term] =
                        Append(@, [ok |-> success, cycle |-> cycle])]
              /\ IF success
                 THEN NextInfo(cur, idx)
                 ELSE /\ pc' = "reset_wait"
                      /\ UNCHANGED <<processed, cur, idx>>
    /\ UNCHANGED <<config, ledger, lock, cycle, now, any_new_found, tpc, tasklocs,
                   writes, summaries, exit_code>>

\* run_check, `with self._lock:` of the reset after a failed dispatch
ResetAcquire ==
    /\ pc = "reset_wait"
    /\ lock = Free
    /\ lock' = MainThread
    /\ pc' = "reset_cs"
    /\ UNCHANGED <<config, ledger, cycle, now, mainloc, tpc, tasklocs, history>>

\* ResetFlag resetting the flags of every term of the url
ResetFlagAll ==
    /\ pc = "reset_cs"
    /\ lock = MainThread
    /\ lock' = Free
    /\ LET info == tresult[cur].infos[idx]
       IN  notification_sent' =
              [notification_sent EXCEPT ![info.found_at] = [t \in TermSet |-> FALSE]]
    /\ NextInfo(cur, idx)
    /\ UNCHANGED <<config, found_items, cycle, now, any_new_found, tpc, tasklocs,
                   history>>

\* the flag is reset, then the release
ResetFlag ==
    /\ pc = "reset_cs"
    /\ lock = MainThread
    /\ lock' = Free
    /\ LET info == tresult[cur].infos[idx]
       IN  notification_sent' =
              [notification_sent EXCEPT ![info.found_at][info.search_term] = FALSE]
    /\ NextInfo(cur, idx)
    /\ UNCHANGED <<config, found_items, cycle, now, any_new_found, tpc, tasklocs,
                   history>>

\* variant of RunCheckReturn: run_check returns once one future was handled,
\* leaving the other tasks running
RunCheckReturnEarly ==
    /\ pc = "as_completed"
    /\ processed # {}
    /\ pc' = "status"
    /\ UNCHANGED <<config, ledger, lock, cycle, now, mainloc, tpc, tasklocs, history>>

\* every future has been yielded: the executor shuts down, run_check returns
RunCheckReturn ==
    /\ pc = "as_completed"
    /\ processed = Tasks
    /\ pc' = "status"
    /\ tpc' = [i \in Tasks |-> "idle"]
    /\ UNCHANGED <<config, ledger, lock, cycle, now, mainloc, tasklocs, history>>

\* run_check: executor.submit raises on the m-th url (no thread can be
\* started). The work item was queued before the thread start failed, so with
\* m >= 2 the pool threads that exist run tasks 1..m; with m = 1 there is no
\* pool thread and nothing runs. The dict comprehension is abandoned: no
\* future is ever handled.
RunCheckSubmitRaises ==
    /\ pc = "run_check"
    /\ \E m \in 1..Len(urls) :
          tpc' = [i \in Tasks |-> IF m >= 2 /\ i <= m THEN "queued" ELSE "idle"]
    /\ any_new_found' = FALSE
    /\ processed' = {}
    /\ tresult' = [i \in Tasks |-> NoResult]
    /\ tfetch' = [i \in Tasks |-> "none"]
    /\ tfound' = [i \in Tasks |-> <<>>]
    /\ pc' = "unwind"
    /\ UNCHANGED <<config, ledger, lock, cycle, now, cur, idx, tattempt, twait,
                   tpage, tk, history>>

\* variant of ExecutorExitRaises: the exception is not caught by the loop and
\* ends the process
ExecutorExitRaisesUncaught ==
    /\ pc = "unwind"
    /\ \A i \in Tasks : tpc[i] \in {"idle", "done"}
    /\ pc' = "exited"
    /\ exit_code' = "1"
    /\ tpc' = [i \in Tasks |-> "idle"]
    /\ UNCHANGED <<config, ledger, lock, cycle, now, mainloc, tasklocs,
                   dispatch_log, writes, summaries>>

\* run_check: the with-block's __exit__ waits for the tasks that were started
\* (shutdown(wait=True)), then the exception reaches start_monitoring's
\* `except Exception`, which logs it
ExecutorExitRaises ==
    /\ pc = "unwind"
    /\ \A i \in Tasks : tpc[i] \in {"idle", "done"}
    /\ pc' = "error_sleep"
    /\ tpc' = [i \in Tasks |-> "idle"]
    /\ UNCHANGED <<config, ledger, lock, cycle, now, mainloc, tasklocs, history>>

\* ----------------------------------------------------- start_monitoring
RECURSIVE SumOver(_, _)
SumOver(f, n) == IF n = 0 THEN 0 ELSE f[n] + SumOver(f, n - 1)

\* found entries of one url, counted once per entry of search_texts
FoundInUrl(fi, sts, url) ==
    SumOver([k \in 1..Len(sts) |-> IF IsFound(fi, url, sts[k]) THEN 1 ELSE 0], Len(sts))

\* get_completion_status counting the pairs whose sent flag is set
GetCompletionStatusCountsSent(fi, us, sts) ==
    [found_count |->
        SumOver([i \in 1..Len(us) |->
                    SumOver([k \in 1..Len(sts) |->
                                IF notification_sent[us[i]][sts[k]] THEN 1 ELSE 0],
                            Len(sts))],
                Len(us)),
     total_expected |-> Len(us) * Len(sts)]

\* SiteMonitor.get_completion_status
GetCompletionStatus(fi, us, sts) ==
    [found_count |-> SumOver([i \in 1..Len(us) |-> FoundInUrl(fi, sts, us[i])], Len(us)),
     total_expected |-> Len(us) * Len(sts)]

\* all_items_found true as soon as anything is found
AllItemsFoundAny(fi, us, sts) ==
    GetCompletionStatus(fi, us, sts).found_count > 0

\* SiteMonitor.all_items_found
AllItemsFound(fi, us, sts) ==
    GetCompletionStatus(fi, us, sts).found_count
        = GetCompletionStatus(fi, us, sts).total_expected

\* CheckCompletion deciding on run_check's result instead of all_items_found
CheckCompletionOnNew ==
    /\ pc = "status"
    /\ pc' = IF any_new_found /\ auto_stop_on_found THEN "final" ELSE "sleep"
    /\ UNCHANGED <<config, ledger, lock, cycle, now, mainloc, tpc, tasklocs, history>>

\* CheckCompletion ending the loop on completion whatever AUTO_STOP_ON_FOUND says
CheckCompletionIgnoresAutoStop ==
    /\ pc = "status"
    /\ pc' = IF AllItemsFound(found_items, urls, search_texts) THEN "final" ELSE "sleep"
    /\ UNCHANGED <<config, ledger, lock, cycle, now, mainloc, tpc, tasklocs, history>>

\* the loop body after run_check: progress, and the mission-complete decision
CheckCompletion ==
    /\ pc = "status"
    /\ pc' = IF AllItemsFound(found_items, urls, search_texts) /\ auto_stop_on_found
             THEN "final" ELSE "sleep"
    /\ UNCHANGED <<config, ledger, lock, cycle, now, mainloc, tpc, tasklocs, history>>

\* SendFinal exiting only when the summary was delivered
SendFinalRetry ==
    /\ pc = "final"
    /\ \E success \in BOOLEAN :
          /\ summaries' = Append(summaries, success)
          /\ exit_code' = IF success THEN ExitSuccess ELSE NoExit
          /\ pc' = IF success THEN "exited" ELSE "sleep"
    /\ UNCHANGED <<config, ledger, lock, cycle, now, mainloc, tpc, tasklocs,
                   dispatch_log, writes>>

\* the final summary is dispatched (its result is ignored), then sys.exit(0)
SendFinal ==
    /\ pc = "final"
    /\ \E success \in BOOLEAN : summaries' = Append(summaries, success)
    /\ exit_code' = ExitSuccess
    /\ pc' = "exited"
    /\ UNCHANGED <<config, ledger, lock, cycle, now, mainloc, tpc, tasklocs,
                   dispatch_log, writes>>

\* time.sleep(self.check_interval), then the next iteration of `while True`
Sleep ==
    /\ pc = "sleep"
    /\ cycle < MaxCycles
    /\ cycle' = cycle + 1
    /\ now' = now + 1
    /\ pc' = "run_check"
    /\ UNCHANGED <<config, ledger, lock, mainloc, tpc, tasklocs, history>>

\* time.sleep(60) in the `except Exception` handler, then the next iteration
ErrorSleep ==
    /\ pc = "error_sleep"
    /\ cycle < MaxCycles
    /\ cycle' = cycle + 1
    /\ now' = now + 1
    /\ pc' = "run_check"
    /\ UNCHANGED <<config, ledger, lock, mainloc, tpc, tasklocs, history>>

\* Ctrl-C during time.sleep(self.check_interval): `except KeyboardInterrupt`
\* breaks the loop, start_monitoring returns and the script ends
InterruptSleep ==
    /\ pc = "sleep"
    /\ pc' = "stopped"
    /\ exit_code' = ExitSuccess
    /\ UNCHANGED <<config, ledger, lock, cycle, now, mainloc, tpc, tasklocs,
                   dispatch_log, writes, summaries>>

\* Ctrl-C during the handler's time.sleep(60): the handler is outside the try
\* block, so KeyboardInterrupt leaves start_monitoring, and __main__ catches
\* only Exception
InterruptErrorSleep ==
    /\ pc = "error_sleep"
    /\ pc' = "interrupted"
    /\ exit_code' = ExitInterrupt
    /\ UNCHANGED <<config, ledger, lock, cycle, now, mainloc, tpc, tasklocs,
                   dispatch_log, writes, summaries>>

Next ==
    \/ ConstructFails
    \/ Construct
    \/ StartMonitoring
    \/ RunCheckSubmit
    \/ \E i \in Tasks : TaskStart(i)
    \/ \E i \in Tasks : FetchOk(i)
    \/ \E i \in Tasks : FetchTerminal(i)
    \/ \E i \in Tasks : FetchRetryable(i)
    \/ \E i \in Tasks : CheckAcquire(i)
    \/ \E i \in Tasks : CheckFound(i)
    \/ \E i \in Tasks : CommitAcquire(i)
    \/ \E i \in Tasks : CommitFound(i)
    \/ \E i \in Tasks : TaskFinish(i)
    \/ AsCompleted
    \/ NotifyAcquire
    \/ NotifyMark
    \/ SendNotification
    \/ ResetAcquire
    \/ ResetFlag
    \/ RunCheckReturn
    \/ RunCheckSubmitRaises
    \/ ExecutorExitRaises
    \/ CheckCompletion
    \/ SendFinal
    \/ Sleep
    \/ ErrorSleep
    \/ InterruptSleep
    \/ InterruptErrorSleep

Spec == Init /\ [][Next]_vars

SpecAnyUrls == InitAnyUrls /\ [][Next]_vars

SpecManyUrls == InitManyUrls /\ [][Next]_vars

\* ---------------------------------------------------------------- claims
Last(s) == s[Len(s)]
Succeeded(log) == \E k \in 1..Len(log) : log[k].ok
FailedIn(log, c) == \E k \in 1..Len(log) : log[k].cycle = c /\ ~log[k].ok
AttemptedIn(log, c) == \E k \in 1..Len(log) : log[k].cycle = c

\* C1: for every (URL, term) pair at most one dispatch succeeds, and a dispatch
\* is made only when every earlier dispatch for the pair failed: in the pair's
\* dispatch history every entry but the last one is a failure.
C1_NoDuplicateNotification ==
    \A u \in URLSet, t \in TermSet :
        \A k \in 1..(Len(dispatch_log[u][t]) - 1) : ~dispatch_log[u][t][k].ok

\* a pair whose first dispatch failed and whose second dispatch succeeded
C1_Witness ==
    \E u \in URLSet, t \in TermSet :
        /\ Len(dispatch_log[u][t]) = 2
        /\ ~dispatch_log[u][t][1].ok
        /\ dispatch_log[u][t][2].ok

\* C2: when run_check has finished a cycle, every pair whose found timestamp
\* was set in that cycle has had a notification dispatch attempted in it.
C2_FoundImpliesDispatched ==
    pc = "status" =>
        \A u \in URLSet, t \in TermSet :
            found_items[u][t] = now => AttemptedIn(dispatch_log[u][t], cycle)

\* C3: a pair whose dispatch failed in the previous cycle, and that no dispatch
\* has notified, has a dispatch attempted in the current cycle by the time
\* run_check has finished it.
C3_RetryInNextCycle ==
    pc = "status" =>
        \A u \in URLSet, t \in TermSet :
            (FailedIn(dispatch_log[u][t], cycle - 1) /\ ~Succeeded(dispatch_log[u][t]))
                => AttemptedIn(dispatch_log[u][t], cycle)

\* the pair of the record the orchestrator is working on
CurPair == <<tresult[cur].infos[idx].found_at, tresult[cur].infos[idx].search_term>>

\* NotFound = 0 < Found = 1 < Notified (sent flag set) = 2
LedgerState(fi, ns, u, t) ==
    IF ns[u][t] THEN 2 ELSE IF fi[u][t] # None THEN 1 ELSE 0

Status == GetCompletionStatus(found_items, urls, search_texts)

EveryPairFound == \A u \in URLSet, t \in TermSet : found_items[u][t] # None

\* C4: the handling of a failed dispatch (the steps of the orchestrator from
\* the failed send to the end of the reset) leaves the pair's sent flag false
\* and its found timestamp set and unchanged, and changes no other entry of
\* found_items or notification_sent.
C4_FailedDispatchLeavesFound ==
    [][ /\ (pc = "send" /\ pc' = "reset_wait") =>
              /\ ~Last(dispatch_log'[CurPair[1]][CurPair[2]]).ok
              /\ UNCHANGED ledger
        /\ (pc = "reset_wait" /\ pc' # pc) => UNCHANGED ledger
        /\ (pc = "reset_cs" /\ pc' # pc) =>
              /\ ~Last(dispatch_log[CurPair[1]][CurPair[2]]).ok
              /\ ~notification_sent'[CurPair[1]][CurPair[2]]
              /\ found_items[CurPair[1]][CurPair[2]] # None
              /\ found_items' = found_items
              /\ \A u \in URLSet, t \in TermSet :
                    <<u, t>> # CurPair => notification_sent'[u][t] = notification_sent[u][t]
      ]_vars

\* the cycle is over, one pair is Found and not Notified after a failed
\* dispatch, and another pair is Notified
C4_Witness ==
    /\ pc = "status"
    /\ \E u \in URLSet, t \in TermSet :
          /\ dispatch_log[u][t] # <<>>
          /\ ~Last(dispatch_log[u][t]).ok
          /\ ~notification_sent[u][t]
          /\ found_items[u][t] # None
    /\ \E u \in URLSet, t \in TermSet : notification_sent[u][t]

\* C5: the state of a pair never goes down in NotFound < Found < Notified,
\* except from Notified to Found in the reset that follows a failed dispatch
\* for that very pair; a found pair never becomes not-found.
C5_LedgerMonotone ==
    [][ \A u \in URLSet, t \in TermSet :
          /\ found_items[u][t] # None => found_items'[u][t] # None
          /\ \/ LedgerState(found_items', notification_sent', u, t)
                    >= LedgerState(found_items, notification_sent, u, t)
             \/ /\ pc = "reset_cs"
                /\ CurPair = <<u, t>>
                /\ ~Last(dispatch_log[u][t]).ok
                /\ LedgerState(found_items, notification_sent, u, t) = 2
                /\ LedgerState(found_items', notification_sent', u, t) = 1
      ]_vars

\* in a later cycle one pair is still Found after its revert and another pair
\* is Notified
C5_Witness ==
    /\ cycle >= 2
    /\ \E u \in URLSet, t \in TermSet :
          /\ LedgerState(found_items, notification_sent, u, t) = 1
          /\ dispatch_log[u][t] # <<>>
          /\ found_items[u][t] < now
    /\ \E u \in URLSet, t \in TermSet :
          /\ LedgerState(found_items, notification_sent, u, t) = 2
          /\ Succeeded(dispatch_log[u][t])
          /\ found_items[u][t] < now

\* C6: a found timestamp, once set, is never overwritten or cleared, and the
\* timestamp of a pair is written at most once, whatever matches later or in
\* a concurrent task.
C6_CommitIdempotent ==
    [][ \A u \in URLSet, t \in TermSet :
          /\ found_items[u][t] # None => found_items'[u][t] = found_items[u][t]
          /\ writes'[u][t] <= 1
      ]_vars

\* two tasks of the same url both saw the term on their page; one committed
\* it and the other has moved past it without committing
C6_Witness ==
    \E i \in Tasks, j \in Tasks, k \in 1..Len(search_texts) :
        /\ i # j
        /\ urls[i] = urls[j]
        /\ tpc[i] \in {"chk_wait", "finish"}
        /\ tk[i] > k
        /\ TermMatches(Pages[tpage[i]], search_texts[k])
        /\ search_texts[k] \notin Range(tfound[i])
        /\ search_texts[k] \in Range(tfound[j])
        /\ found_items[urls[i]][search_texts[k]] = now

\* C7: get_completion_status always returns total = len(urls) * len(search
\* terms); once the monitor is constructed the total never changes and the
\* found count never decreases; the found count never exceeds the total.
C7_CompletionAccounting ==
    /\ [](/\ Status.total_expected = Cardinality(Tasks) * Cardinality(DOMAIN search_texts)
          /\ Status.found_count <= Status.total_expected)
    /\ [][ pc # "main" =>
              /\ Status'.total_expected = Status.total_expected
              /\ Status'.found_count >= Status.found_count ]_vars

\* after a later cycle some but not all pairs are found
C7_Witness ==
    /\ pc = "status"
    /\ cycle >= 2
    /\ Status.found_count >= 1
    /\ Status.found_count < Status.total_expected
    /\ \E u \in URLSet, t \in TermSet : found_items[u][t] = now

\* C8: when after a cycle every pair is found and auto-stop is enabled, the
\* loop's next steps are the dispatch of one summary and the exit with code 0,
\* whatever the outcome of that dispatch; no cycle starts and nothing happens
\* after the exit.
C8_AutoStop ==
    /\ [](Len(summaries) <= 1)
    /\ [](pc = "exited" => Len(summaries) = 1 /\ exit_code = ExitSuccess)
    /\ [][ (pc = "status" /\ EveryPairFound /\ auto_stop_on_found) => pc' = "final" ]_vars
    /\ [][ pc = "final" =>
              /\ pc' = "exited"
              /\ Len(summaries') = Len(summaries) + 1
              /\ exit_code' = ExitSuccess
              /\ cycle' = cycle ]_vars
    /\ [][ pc = "exited" => FALSE ]_vars

\* the monitor has exited with code 0 although the summary dispatch failed
C8_Witness ==
    /\ pc = "exited"
    /\ exit_code = ExitSuccess
    /\ summaries = <<FALSE>>
    /\ EveryPairFound

\* C9 as stated: at mission-complete every pair is Notified, its notification
\* having been dispatched successfully.
C9_ExitImpliesAllNotified ==
    pc \in {"final", "exited"} =>
        \A u \in URLSet, t \in TermSet :
            notification_sent[u][t] /\ Succeeded(dispatch_log[u][t])

\* C9 as amended: at mission-complete every pair has its found timestamp set,
\* and a pair is Notified exactly when one of its dispatches succeeded.
C9_ExitImpliesAllFound ==
    pc \in {"final", "exited"} =>
        \A u \in URLSet, t \in TermSet :
            /\ found_items[u][t] # None
            /\ notification_sent[u][t] <=> Succeeded(dispatch_log[u][t])

\* the monitor has auto-stopped with one pair Notified and another only Found
C9_Witness ==
    /\ pc = "exited"
    /\ \E u \in URLSet, t \in TermSet : ~notification_sent[u][t]
    /\ \E u \in URLSet, t \in TermSet : notification_sent[u][t]

\* C10: while some pair is not found the loop neither exits on its own nor
\* sends the summary; after the cycle it sleeps and then, unless the user
\* interrupts it, starts the next cycle; and the found count changes only in
\* a step that commits a term matching the page.
C10_NoStopWhileIncomplete ==
    /\ [](~EveryPairFound =>
             /\ pc \notin {"final", "exited"}
             /\ summaries = <<>>
             /\ (exit_code = NoExit \/ pc \in {"stopped", "interrupted"}))
    /\ [][ (pc = "status" /\ ~EveryPairFound) => pc' = "sleep" ]_vars
    /\ [][ pc = "sleep" =>
              \/ pc' = "run_check" /\ cycle' = cycle + 1
              \/ pc' = "stopped" ]_vars
    /\ [][ Status'.found_count # Status.found_count =>
              \E i \in Tasks :
                  /\ tpc[i] = "commit_cs"
                  /\ TermMatches(Pages[tpage[i]], search_texts[tk[i]])
                  /\ found_items[urls[i]][search_texts[tk[i]]] = None ]_vars

\* with auto-stop enabled the second cycle has ended with the same single found
\* pair the first cycle left, and the loop sleeps again
C10_Witness ==
    /\ auto_stop_on_found
    /\ pc = "sleep"
    /\ cycle = 2
    /\ Status.found_count = 1
    /\ \E u \in URLSet, t \in TermSet : found_items[u][t] = 1

\* the task's fetch failed for good: fetch_page returned None
FetchFailed(i) ==
    /\ tpc[i] \in {"done", "idle"}
    /\ tfetch[i] \in {"retryable", "terminal"}

\* no task of url u has got (or, this cycle, gets) a page
NoPageFor(u) ==
    \A i \in Tasks : urls[i] = u => (tpc[i] \in {"queued", "fetch"} \/ FetchFailed(i))

\* every task of url u failed to fetch in the current cycle
AllFetchesFailed(u) == \A i \in Tasks : urls[i] = u => FetchFailed(i)

\* C11: when the fetch for URL X fails for good in a cycle, the task returns no
\* discoveries, no found timestamp and no notified flag of a pair of X changes
\* in that cycle, nothing is dispatched for X, and handling the failed task
\* keeps the cycle going: the main thread only marks it processed.
C11_FetchFailureIsNothingFound ==
    /\ [](\A i \in Tasks : FetchFailed(i) =>
             /\ tresult[i] = NoResult
             /\ tfound[i] = <<>>)
    /\ [](\A u \in URLSet : AllFetchesFailed(u) =>
             \A t \in TermSet :
                /\ found_items[u][t] # now
                /\ ~AttemptedIn(dispatch_log[u][t], cycle))
    /\ [][\A u \in URLSet : NoPageFor(u) =>
             /\ found_items'[u] = found_items[u]
             /\ notification_sent'[u] = notification_sent[u]
             /\ dispatch_log'[u] = dispatch_log[u]]_vars
    /\ [][\A i \in Tasks : (FetchFailed(i) /\ i \notin processed /\ i \in processed') =>
             /\ pc = "as_completed" /\ pc' = "as_completed"
             /\ any_new_found' = any_new_found
             /\ UNCHANGED <<ledger, history>>]_vars

\* C11 witness: cycle 1 is over, the fetch for the first site failed after all
\* its retries while a term was found on the second site, and cycle 2 starts
C11_Witness ==
    /\ pc = "run_check" /\ cycle = 2
    /\ urls = <<U1, U2>>
    /\ FetchFailed(1) /\ tfetch[1] = "retryable"
    /\ found_items[U2][T1] = 1

\* the task failed: its fetch failed, or _check_single_url raised
TaskFailed(i) ==
    /\ tpc[i] \in {"done", "idle"}
    /\ (FetchFailed(i) \/ tresult[i].exc)

\* C12: a failed task (fetch failure or exception) is isolated. Handling it
\* changes nothing but the set of handled futures; a worker step changes only
\* found timestamps of the worker's own URL and no flag; run_check returns only
\* when every task is done and handled; and at that point every term a
\* non-failed task reported is committed with this cycle's timestamp and has
\* had its dispatch attempted in this cycle, whatever the other tasks did.
C12_FailureIsolated ==
    /\ [][\A i \in Tasks : (TaskFailed(i) /\ i \notin processed /\ i \in processed') =>
             /\ processed' = processed \cup {i}
             /\ pc' = "as_completed"
             /\ UNCHANGED <<ledger, history, tpc, tasklocs, any_new_found>>]_vars
    /\ [][\A i \in Tasks : tpc'[i] # tpc[i] /\ tpc[i] \notin {"idle", "done"} /\ pc' = pc =>
             /\ notification_sent' = notification_sent
             /\ dispatch_log' = dispatch_log
             /\ \A u \in URLSet \ {urls[i]} : found_items'[u] = found_items[u]
             /\ \A j \in Tasks \ {i} :
                   /\ tpc'[j] = tpc[j] /\ tresult'[j] = tresult[j]
                   /\ tfound'[j] = tfound[j] /\ tpage'[j] = tpage[j]]_vars
    /\ [][(pc = "as_completed" /\ pc' # "as_completed" /\ pc' # "notify_wait") =>
             /\ processed = Tasks
             /\ \A j \in Tasks : tpc[j] = "done"]_vars
    /\ [](pc = "status" =>
             \A j \in Tasks : ~TaskFailed(j) =>
                \A k \in 1..Len(tresult[j].infos) :
                   LET t == tresult[j].infos[k].search_term IN
                      /\ found_items[urls[j]][t] = now
                      /\ AttemptedIn(dispatch_log[urls[j]][t], cycle))

\* C12 witness: at the end of a cycle the task of the first site has raised, the
\* second site's task reported a term and its notification was delivered
C12_Witness ==
    /\ pc = "status"
    /\ urls = <<U1, U2>>
    /\ tresult[1].exc
    /\ tresult[2].infos # <<>>
    /\ found_items[U2][T1] = now
    /\ Succeeded(dispatch_log[U2][T1])

\* task i decides on its current term in this step
Decides(i) == tpc[i] \in {"chk_cs", "commit_cs"} /\ tk'[i] = tk[i] + 1

\* C13: when check_for_patterns decides on a term, the term is reported (added
\* to found_texts) if and only if its normalized form occurs in the normalized
\* content of the page and the pair has no found timestamp at that moment; a
\* reported term gets the timestamp in the same step, and no term reported by
\* a task was found in an earlier cycle.
C13_NewlyFoundIffMatchAndNotFound ==
    /\ [][\A i \in Tasks : Decides(i) =>
             LET search_text == search_texts[tk[i]]
                 reported == tfound'[i] = Append(tfound[i], search_text)
             IN  /\ reported <=>
                       /\ Contains(NormalizedContent(Pages[tpage[i]]),
                                   NormalizeText(search_text))
                       /\ found_items[urls[i]][search_text] = None
                 /\ ~reported => tfound'[i] = tfound[i]
                 /\ reported => found_items'[urls[i]][search_text] = now]_vars
    /\ [][\A i \in Tasks : tfound'[i] # tfound[i] =>
             \/ Decides(i)
             \/ (pc = "run_check" /\ tfound'[i] = <<>>)]_vars
    /\ [](\A i \in Tasks : \A k \in 1..Len(tfound[i]) :
             /\ tpc[i] # "idle" => found_items[urls[i]][tfound[i][k]] = now
             /\ \A l \in 1..Len(tfound[i]) : tfound[i][l] = tfound[i][k] => l = k)

\* C13 witness: in the second cycle a task has skipped the term found in the
\* first cycle, although the page holds it, and reported the other term
C13_Witness ==
    \E i \in Tasks :
        /\ cycle = 2
        /\ tpc[i] = "finish"
        /\ tfound[i] = <<T2>>
        /\ found_items[urls[i]][T1] = 1
        /\ TermMatches(Pages[tpage[i]], T1)
        /\ TermMatches(Pages[tpage[i]], T2)

\* the main thread's positions after the loop has ended
LoopEnded == {"exited", "stopped", "interrupted"}

\* C14: an exception raised by run_check is absorbed. Once it propagates, the
\* loop is in the fallback wait with the process still running and the ledger
\* untouched by the handler; from the fallback wait the only ways on are the
\* next cycle and a user interrupt; and the loop ends only by the auto-stop
\* exit (all pairs found, auto-stop enabled, from the summary) or by a user
\* interrupt during one of the two waits.
C14_CycleExceptionAbsorbed ==
    /\ [][pc = "unwind" =>
             /\ pc' \in {"unwind", "error_sleep"}
             /\ exit_code' = NoExit
             /\ notification_sent' = notification_sent
             /\ dispatch_log' = dispatch_log
             /\ summaries' = summaries]_vars
    /\ [][pc = "error_sleep" =>
             /\ UNCHANGED <<ledger, dispatch_log, writes, summaries>>
             /\ \/ pc' = "run_check" /\ cycle' = cycle + 1 /\ exit_code' = NoExit
                \/ pc' = "interrupted" /\ exit_code' = ExitInterrupt]_vars
    /\ [][(pc \notin LoopEnded /\ pc' \in LoopEnded) =>
             \/ /\ pc = "final" /\ pc' = "exited"
                /\ EveryPairFound /\ auto_stop_on_found
             \/ pc = "sleep" /\ pc' = "stopped"
             \/ pc = "error_sleep" /\ pc' = "interrupted"]_vars
    /\ [](exit_code = NoExit <=> pc \notin LoopEnded \cup {"failed"})
    /\ [][ (pc \in LoopEnded) => FALSE ]_vars

\* C14 witness: the first cycle raised before any task was started (no task
\* has fetched anything), the loop waited the fallback interval, and the
\* second cycle is about to run with the process still alive
C14_Witness ==
    /\ cycle = 2
    /\ pc = "run_check"
    /\ \A i \in Tasks : tfetch[i] = "none" /\ tpc[i] = "idle"
    /\ exit_code = NoExit

\* C15: when the startup validation fails, the process exits with a non-zero
\* exit code and never starts monitoring: it has run no cycle step, the ledger
\* was never set up and nothing was dispatched.
C15_ValidationFailureExitsNonZero ==
    (ConstructionFails(env) /\ pc # "main") =>
        /\ pc = "failed"
        /\ exit_code \notin {NoExit, ExitSuccess}
        /\ cycle = 1
        /\ urls = <<>>
        /\ dispatch_log = <<>>
        /\ summaries = <<>>

\* task i makes a fetch attempt in this step
Attempts(i) ==
    /\ tpc[i] = "fetch"
    /\ (tpc'[i] # "fetch" \/ tattempt'[i] # tattempt[i])

Reporters(u, t) == {i \in Tasks : urls[i] = u /\ t \in Range(tfound[i])}

\* the successful dispatches of a pair
Successes(log) == {k \in 1..Len(log) : log[k].ok}

\* C17: when several check_for_patterns invocations run for the same URL in a
\* cycle, a term is reported by at most one of them; as soon as one of them has
\* decided on a term its page holds, the term was found in an earlier cycle or
\* exactly one invocation has reported it; the found timestamp is written at
\* most once, and exactly once when the term is reported; and at most one
\* dispatch for the pair succeeds.
C17_ConcurrentSameUrlReportsOnce ==
    /\ [](\A u \in URLSet, t \in TermSet :
             /\ Cardinality(Reporters(u, t)) <= 1
             /\ writes[u][t] <= 1
             /\ Reporters(u, t) # {} => writes[u][t] = 1
             /\ Cardinality(Successes(dispatch_log[u][t])) <= 1)
    /\ [][\A i \in Tasks :
             (Decides(i) /\ TermMatches(Pages[tpage[i]], search_texts[tk[i]])) =>
                LET u == urls[i]
                    t == search_texts[tk[i]]
                    after == {j \in Tasks : urls[j] = u /\ t \in Range(tfound'[j])}
                IN  \/ found_items[u][t] \in 1..(now - 1) /\ after = {}
                    \/ found_items'[u][t] = now /\ Cardinality(after) = 1]_vars

\* C17 witness: the URL is configured twice, both tasks have fetched a page
\* holding the first term and have finished matching; the first task reported
\* the term, the second did not, and the timestamp was written once
C17_Witness ==
    /\ urls = <<U1, U1>>
    /\ tpc[1] = "finish" /\ tpc[2] = "finish"
    /\ TermMatches(Pages[tpage[1]], T1)
    /\ TermMatches(Pages[tpage[2]], T1)
    /\ found_items[U1][T1] = now
    /\ Reporters(U1, T1) = {1}
    /\ writes[U1][T1] = 1

\* C18: run_check submits exactly one task per entry of the URL list, all of
\* them in the submit step and none at any other time; a task runs at most
\* once per cycle; and the number of tasks a pool thread is executing never
\* exceeds min(number of URLs, MAX_WORKERS).
C18_OneTaskPerUrlBoundedPool ==
    /\ [](pc # "main" => DOMAIN tpc = 1..Len(urls))
    /\ [](Cardinality(Running) <= Min(Len(urls), MAX_WORKERS))
    /\ [][(pc = "run_check" /\ pc' = "as_completed") =>
             \A i \in Tasks : tpc[i] = "idle" /\ tpc'[i] = "queued"]_vars
    /\ [][\A i \in Tasks :
             /\ (tpc'[i] = "queued" /\ tpc[i] # "queued") => pc = "run_check"
             /\ (tpc[i] = "queued" /\ tpc'[i] # "queued") => tpc'[i] = "fetch"
             /\ (tpc'[i] = "fetch" /\ tpc[i] # "fetch") => tpc[i] = "queued"
             /\ tpc[i] = "done" => tpc'[i] \in {"done", "idle"}]_vars

\* C18 witness: five URLs are configured; four tasks are executing, in
\* different phases, and the fifth waits in the queue
C18_Witness ==
    /\ Len(urls) = 5
    /\ Cardinality(Running) = MAX_WORKERS
    /\ tpc[5] = "queued"
    /\ \E i, j \in Running : tpc[i] = "fetch" /\ tpc[j] = "commit_cs"

\* the main thread's positions inside run_check
InRunCheck ==
    {"as_completed", "notify_wait", "notify_cs", "send", "reset_wait", "reset_cs",
     "unwind"}

\* C19: cycles never overlap. run_check returns, or lets its exception out,
\* only when every task it submitted has finished; outside run_check (when
\* the completion status is read, the summary built, during the waits and
\* when the next cycle starts) no task is queued or running, no worker holds
\* the lock, and found_items does not change.
C19_CyclesNeverOverlap ==
    /\ [](pc \notin InRunCheck =>
             /\ \A i \in DOMAIN tpc : tpc[i] = "idle"
             /\ lock = Free)
    /\ [][(pc = "as_completed" /\ pc' \notin InRunCheck) =>
             /\ pc' = "status"
             /\ processed = Tasks
             /\ \A i \in Tasks : tpc[i] = "done"]_vars
    /\ [][(pc = "unwind" /\ pc' # "unwind") =>
             /\ pc' = "error_sleep"
             /\ \A i \in Tasks : tpc[i] \in {"idle", "done"}]_vars
    /\ [][(pc \notin InRunCheck /\ pc # "main") => found_items' = found_items]_vars
    /\ [][(pc' \notin InRunCheck /\ pc' # pc /\ pc # "main") =>
             found_items' = found_items]_vars

\* C19 witness: the completion status of the second cycle is about to be read;
\* workers wrote timestamps in both cycles and none of them is running
C19_Witness ==
    /\ pc = "status"
    /\ cycle = 2
    /\ \A i \in Tasks : tpc[i] = "idle"
    /\ \E u \in URLSet, t \in TermSet : found_items[u][t] = 1
    /\ \E u \in URLSet, t \in TermSet : found_items[u][t] = 2

\* the main thread's positions while it handles one record of a result
Notifying == {"notify_wait", "notify_cs", "send", "reset_wait", "reset_cs"}

\* C20: a pair whose sent flag is set has its found timestamp set; so has every
\* pair a dispatch was ever made for, every pair of a record a task returned,
\* and the pair the main thread is marking, dispatching or reverting.
C20_NotifiedImpliesFound ==
    /\ \A u \in URLSet, t \in TermSet :
          /\ notification_sent[u][t] => found_items[u][t] # None
          /\ dispatch_log[u][t] # <<>> => found_items[u][t] # None
    /\ \A i \in DOMAIN tresult : \A k \in 1..Len(tresult[i].infos) :
          found_items[tresult[i].infos[k].found_at][tresult[i].infos[k].search_term]
             # None
    /\ pc \in Notifying => found_items[CurPair[1]][CurPair[2]] # None

\* C20 witness: a dispatch is in progress for a pair whose sent flag is set
\* and whose timestamp was written in this cycle
C20_Witness ==
    /\ pc = "send"
    /\ notification_sent[CurPair[1]][CurPair[2]]
    /\ found_items[CurPair[1]][CurPair[2]] = now

\* C21: when run_check has returned, its result is true if and only if some
\* pair got its found timestamp during the cycle that just ran.
C21_ReturnsTrueIffNewlyFound ==
    pc = "status" =>
        (any_new_found <=> \E u \in URLSet, t \in TermSet : found_items[u][t] = now)

\* the pairs whose dispatch history or sent flag differs between the two
\* states of a step
TouchedPairs ==
    {p \in URLSet \X TermSet :
        \/ dispatch_log'[p[1]][p[2]] # dispatch_log[p[1]][p[2]]
        \/ notification_sent'[p[1]][p[2]] # notification_sent[p[1]][p[2]]}

\* C22: dispatches are serialized. A dispatch is made only by the main thread
\* at its send position, for the one pair of the record it is handling, and
\* appends one entry; no worker step touches a dispatch history or a sent
\* flag; and from the mark of a pair to the end of its dispatch or revert the
\* main thread stays on that record, so no other pair's flag or history
\* changes in between, whatever the workers and the finished futures do.
C22_DispatchSerialized ==
    /\ [][(pc # "main" /\ dispatch_log' # dispatch_log) =>
             /\ pc = "send"
             /\ TouchedPairs = {CurPair}
             /\ Len(dispatch_log'[CurPair[1]][CurPair[2]])
                   = Len(dispatch_log[CurPair[1]][CurPair[2]]) + 1
             /\ tpc' = tpc /\ UNCHANGED tasklocs]_vars
    /\ [][(pc # "main" /\ notification_sent' # notification_sent) =>
             /\ pc \in {"notify_cs", "reset_cs"}
             /\ lock = MainThread
             /\ TouchedPairs = {CurPair}
             /\ tpc' = tpc /\ UNCHANGED tasklocs]_vars
    /\ [][(pc \in {"send", "reset_wait", "reset_cs"}) =>
             /\ TouchedPairs \subseteq {CurPair}
             /\ pc' \in {"send", "reset_wait", "reset_cs"} => (cur' = cur /\ idx' = idx)
             /\ notification_sent[CurPair[1]][CurPair[2]]]_vars
    /\ [][(pc = "send" /\ pc' # "send") =>
             /\ dispatch_log' # dispatch_log
             /\ pc' = "reset_wait" <=> ~Last(dispatch_log'[CurPair[1]][CurPair[2]]).ok]_vars

\* C22 witness: the tasks of two sites have both finished with records; the
\* main thread is dispatching for a pair of the first while the second's
\* future waits to be handled
C22_Witness ==
    /\ urls = <<U1, U2>>
    /\ pc = "send"
    /\ cur = 1
    /\ tpc[2] = "done"
    /\ 2 \notin processed
    /\ tresult[2].infos # <<>>

\* the positions inside a `with self._lock:` block
WorkerLocked == {"chk_cs", "commit_cs"}
MainLocked == {"notify_cs", "reset_cs"}

\* the positions where a thread waits for the lock
WorkerWaits == {"chk_wait", "commit_wait"}
MainWaits == {"notify_wait", "reset_wait"}

\* C23: the lock is held exactly by a thread inside one of the four locked
\* blocks, so never by a thread that is fetching or dispatching; it is acquired
\* only when free; the holder can always take its next step, and that step
\* releases the lock; inside run_check some thread can always step; and while
\* the main thread dispatches, a worker waiting for the lock is held up only by
\* another worker.
C23_LockDiscipline ==
    /\ [](/\ lock \in Tasks => tpc[lock] \in WorkerLocked
          /\ \A i \in Tasks : tpc[i] \in WorkerLocked => lock = i
          /\ (pc # "main" /\ lock = MainThread) => pc \in MainLocked
          /\ pc \in MainLocked => lock = MainThread
          /\ \A i \in Tasks : tpc[i] = "fetch" => lock # i
          /\ pc = "send" => lock # MainThread)
    /\ [][(lock' # lock /\ lock' # Free) => lock = Free]_vars
    /\ [][(lock # Free /\ lock' # lock) => lock' = Free]_vars
    /\ [][\A i \in Tasks : (lock = i /\ tpc'[i] # tpc[i]) => lock' = Free]_vars
    /\ [][(lock = MainThread /\ pc \in MainLocked /\ pc' # pc) => lock' = Free]_vars
    /\ [](\A i \in Tasks :
             /\ (lock = i /\ tpc[i] = "chk_cs") => ENABLED CheckFound(i)
             /\ (lock = i /\ tpc[i] = "commit_cs") => ENABLED CommitFound(i))
    /\ [](/\ pc = "notify_cs" => ENABLED NotifyMark
          /\ pc = "reset_cs" => ENABLED ResetFlag)
    /\ [](pc \in InRunCheck => ENABLED Next)
    /\ [](\A i \in Tasks : (pc = "send" /\ lock \notin Tasks) =>
             /\ tpc[i] = "chk_wait" => ENABLED CheckAcquire(i)
             /\ tpc[i] = "commit_wait" => ENABLED CommitAcquire(i))

\* C23 witness: while a dispatch is in progress the other worker took the lock
\* and is inside its commit
C23_Witness ==
    /\ pc = "send"
    /\ Len(urls) = 2
    /\ \E i \in Tasks : tpc[i] = "commit_cs" /\ lock = i /\ i # cur

\* every pair of the constructed monitor was found in a cycle before this one
AllFoundEarlier ==
    /\ urls # <<>>
    /\ \A u \in URLSet, t \in TermSet : found_items[u][t] \notin {None, now}

\* C24: with auto-stop disabled the loop never reaches the summary or the
\* auto-stop exit and no summary is ever sent, so the process ends only by a
\* user interrupt during one of the two waits; and in a cycle that starts with
\* every pair found, run_check still submits one task per URL and returns only
\* after each of them attempted its fetch, while no step dispatches a
\* notification or changes found_items or notification_sent.
C24_NoAutoStopRunsOn ==
    /\ [](~auto_stop_on_found =>
             /\ pc \notin {"final", "exited"}
             /\ summaries = <<>>
             /\ (urls # <<>>) => (exit_code # NoExit <=> pc \in {"stopped", "interrupted"}))
    /\ [][(~auto_stop_on_found /\ urls # <<>> /\ exit_code' # exit_code) =>
             pc \in {"sleep", "error_sleep"}]_vars
    /\ [][(~auto_stop_on_found /\ pc = "status") => pc' = "sleep"]_vars
    /\ [][(~auto_stop_on_found /\ AllFoundEarlier) =>
             /\ dispatch_log' = dispatch_log
             /\ found_items' = found_items
             /\ notification_sent' = notification_sent
             /\ writes' = writes
             /\ (pc = "run_check" /\ pc' = "as_completed") =>
                    \A i \in Tasks : tpc'[i] = "queued" /\ tfetch'[i] = "none"]_vars
    /\ [](( /\ ~auto_stop_on_found
            /\ AllFoundEarlier
            /\ pc = "status") =>
             \A i \in Tasks : tpc[i] = "idle" /\ tfetch[i] # "none")

\* C24 witness: auto-stop is off, the first cycle found every pair, and the
\* second cycle has returned after both URLs were fetched with content, with
\* nothing dispatched in it
C24_Witness ==
    /\ ~auto_stop_on_found
    /\ urls = <<U1, U2>>
    /\ cycle = 2
    /\ pc = "status"
    /\ AllFoundEarlier
    /\ \A i \in Tasks : tfetch[i] = "content"
    /\ \A u \in URLSet, t \in TermSet : ~AttemptedIn(dispatch_log[u][t], 2)

====
